---- MODULE Spec2Model ----
(***************************************************************************)
(* Model of the tree engine of the icd package (icd/base.py) together with *)
(* the range based block of the 10-CM revision (icd/rev10cm.py).           *)
(*                                                                         *)
(* The heap of entry objects is the pair parent / children.  add_child and *)
(* remove_child are translated statement by statement; the for loop of     *)
(* add_child runs over the live children list by index, as Python's list   *)
(* iterator does, so that removals during the scan shift the elements.     *)
(***************************************************************************)
EXTENDS Integers, Sequences, FiniteSets, TLC

VARIABLES entries, parent, children, _release, last, order, answer

vars == <<entries, parent, children, _release, last, order, answer>>

\* Python's None
None == "None"

(***************************************************************************)
(* Bounds of the model.                                                    *)
(***************************************************************************)
\* depth of nested add_child / depth / search frames after which the
\* interpreter raises RecursionError
RecursionLimit == 8
\* largest maxdepth argument passed to search, exists and get
MaxMaxdepth == 4
\* length of the longest children argument of a constructor call
MaxChildren == 2

(***************************************************************************)
(* The entry objects a program may construct.  Every object has a class    *)
(* and a code; both are fixed at construction.                             *)
(***************************************************************************)
Catalogue ==
    {"R", "C", "K", "B1", "B2", "B3", "B4", "B5", "B6", "B7", "BX"}

\* a value that is no entry, such as a string
NotAnEntry == "not-an-entry"

ClassOf(e) ==
    CASE e = "R" -> "ICDRoot"
      [] e = "C" -> "ICDChapter"
      [] e = "K" -> "ICDCategory"
      [] e = NotAnEntry -> "str"
      [] OTHER   -> "ICD10CMBlock"

\* codes are strings, modelled as sequences of one-character strings
CodeOf(e) ==
    CASE e = "R"  -> <<"I", "C", "D">>
      [] e = "C"  -> <<"I">>
      [] e = "K"  -> <<"A", "0", "0", ".", "1">>
      [] e = "B1" -> <<"A", "0", "0", "-", "A", "0", "9">>
      [] e = "B2" -> <<"A", "1", "0", "-", "A", "1", "9">>
      [] e = "B3" -> <<"A", "0", "0", "-", "A", "1", "9">>
      [] e = "B4" -> <<"A", "0", "0", "-", "A", "2", "9">>
      [] e = "B5" -> <<"A", "0", "9">>
      [] e = "B6" -> <<"A", "0", "5", "-", "A", "1", "5">>
      [] e = "B7" -> <<"A", "1", "0">>
      [] e = "BX" -> <<"A", "0", "0", "-", "A", "0", "9", "-", "A", "1", "9">>
      [] OTHER    -> <<>>

\* code points of the characters that occur in codes
Ord(c) ==
    CASE c = "-" -> 45
      [] c = "." -> 46
      [] c = "0" -> 48
      [] c = "1" -> 49
      [] c = "2" -> 50
      [] c = "5" -> 53
      [] c = "9" -> 57
      [] c = "A" -> 65
      [] c = "C" -> 67
      [] c = "D" -> 68
      [] c = "I" -> 73
      [] OTHER   -> 0

\* base.py: _kind of the classes
Kind(e) ==
    CASE ClassOf(e) = "ICDRoot"     -> "root"
      [] ClassOf(e) = "ICDChapter"  -> "chapter"
      [] ClassOf(e) = "ICDCategory" -> "category"
      [] OTHER                      -> "block"

\* issubclass(type(e), ICDRoot)
IsRootClass(e) == ClassOf(e) = "ICDRoot"

\* isinstance(e, ICDBlock)
IsBlock(e) == ClassOf(e) \in {"ICDBlock", "ICD10CMBlock"}

\* isinstance(e, ICD10CMBlock)
IsICD10CMBlock(e) == ClassOf(e) = "ICD10CMBlock"

(***************************************************************************)
(* Python strings and lists.                                               *)
(***************************************************************************)
Min(a, b) == IF a <= b THEN a ELSE b

\* a < b for Python strings: lexicographic by code point
StrLess(a, b) ==
    \E k \in 0..Min(Len(a), Len(b)) :
        /\ \A i \in 1..k : a[i] = b[i]
        /\ \/ k = Len(a) /\ k < Len(b)
           \/ k < Len(a) /\ k < Len(b) /\ Ord(a[k + 1]) < Ord(b[k + 1])

\* x in lst
InList(x, lst) == \E i \in 1..Len(lst) : lst[i] = x

\* lst.remove(x): drops the first occurrence of x
RemoveFirst(lst, x) ==
    LET i == CHOOSE j \in 1..Len(lst) :
                 lst[j] = x /\ \A k \in 1..(j - 1) : lst[k] # x
    IN  SubSeq(lst, 1, i - 1) \o SubSeq(lst, i + 1, Len(lst))

\* positions of the "-" characters of a code
Dashes(code) == {i \in 1..Len(code) : code[i] = "-"}

FirstDash(code) == CHOOSE i \in Dashes(code) : \A j \in Dashes(code) : i <= j

(***************************************************************************)
(* ICD10CMBlock: start_code, end_code, should_contain.                     *)
(***************************************************************************)
\* self.code.split("-", maxsplit=1)[0]
start_code(e) ==
    IF Dashes(CodeOf(e)) = {} THEN CodeOf(e)
    ELSE SubSeq(CodeOf(e), 1, FirstDash(CodeOf(e)) - 1)

\* end_code raises ValueError when the code splits into more than two parts
end_code_raises(e) == Cardinality(Dashes(CodeOf(e))) > 1

end_code(e) ==
    IF Dashes(CodeOf(e)) = {} THEN start_code(e)
    ELSE SubSeq(CodeOf(e), FirstDash(CodeOf(e)) + 1, Len(CodeOf(e)))

\* self.should_contain(block) raises: the comparison of the start codes
\* cannot raise, the one of the end codes evaluates both end_code properties
should_contain_raises(self, block) ==
    /\ IsICD10CMBlock(self)
    /\ IsICD10CMBlock(block)
    /\ self # block
    /\ (end_code_raises(block) \/ end_code_raises(self))

\* a containment with exclusive bounds
should_contain_strictly(self, block) ==
    IF IsICD10CMBlock(self)
    THEN /\ IsICD10CMBlock(block)
         /\ self # block
         /\ StrLess(start_code(self), start_code(block))
         /\ StrLess(end_code(block), end_code(self))
    ELSE FALSE

\* self.should_contain(block), dispatched on the class of self
should_contain(self, block) ==
    IF IsICD10CMBlock(self)
    THEN /\ IsICD10CMBlock(block)
         /\ self # block
         /\ ~StrLess(start_code(block), start_code(self))
         /\ ~StrLess(end_code(self), end_code(block))
    ELSE FALSE

(***************************************************************************)
(* remove_child and add_child on a heap h = [parent, children].            *)
(***************************************************************************)
\* a remove_child that forgets to clear the parent link
remove_child_keeps_parent(h, self, child) ==
    IF InList(child, h.children[self])
    THEN [parent   |-> h.parent,
          children |-> [h.children EXCEPT ![self] = RemoveFirst(@, child)]]
    ELSE h

\* a remove_child that clears the parent link of an entry it does not list
remove_child_clears_unlisted(h, self, child) ==
    [parent   |-> IF h.parent[child] # None
                  THEN [h.parent EXCEPT ![child] = None]
                  ELSE h.parent,
     children |-> IF InList(child, h.children[self])
                  THEN [h.children EXCEPT ![self] = RemoveFirst(@, child)]
                  ELSE h.children]

remove_child(h, self, child) ==
    IF InList(child, h.children[self])
    THEN [parent   |-> IF h.parent[child] = self
                       THEN [h.parent EXCEPT ![child] = None]
                       ELSE h.parent,
          children |-> [h.children EXCEPT ![self] = RemoveFirst(@, child)]]
    ELSE h

\* an attach that leaves new_child listed under its previous parent
attach_without_detach(h, self, new_child) ==
    [parent   |-> [h.parent EXCEPT ![new_child] = self],
     children |-> [h.children EXCEPT ![self] = Append(@, new_child)]]

\* the last three statements of add_child
attach(h, self, new_child) ==
    LET h1 == IF h.parent[new_child] # None
              THEN remove_child(h, h.parent[new_child], new_child)
              ELSE h
    IN  [parent   |-> [h1.parent EXCEPT ![new_child] = self],
         children |-> [h1.children EXCEPT ![self] = Append(@, new_child)]]

are_children_block(h, self) ==
    \A i \in 1..Len(h.children[self]) : IsBlock(h.children[self][i])

RECURSIVE add_child(_, _, _, _)
RECURSIVE scan_blocks(_, _, _, _, _)

\* a loop that takes a sibling new_child should contain out of
\* self.children without adding it to new_child
scan_blocks_dropping(h, self, new_child, i, depth) ==
    IF i > Len(h.children[self])
    THEN [h |-> h, raised |-> None, returned |-> FALSE]
    ELSE LET block == h.children[self][i] IN
         IF should_contain_raises(block, new_child)
         THEN [h |-> h, raised |-> "ValueError", returned |-> FALSE]
         ELSE IF should_contain(block, new_child)
         THEN LET r == add_child(h, block, new_child, depth + 1)
              IN  [h |-> r.h, raised |-> r.raised, returned |-> TRUE]
         ELSE IF should_contain_raises(new_child, block)
         THEN [h |-> h, raised |-> "ValueError", returned |-> FALSE]
         ELSE IF should_contain(new_child, block)
         THEN scan_blocks(remove_child(h, self, block), self, new_child,
                          i + 1, depth)
         ELSE scan_blocks(h, self, new_child, i + 1, depth)

\* The for loop of add_child from position i of the live list
\* self.children.  The result tells whether an exception left the loop
\* (raised) or the loop returned from add_child (returned).
scan_blocks(h, self, new_child, i, depth) ==
    IF i > Len(h.children[self])
    THEN [h |-> h, raised |-> None, returned |-> FALSE]
    ELSE LET block == h.children[self][i] IN
         IF should_contain_raises(block, new_child)
         THEN [h |-> h, raised |-> "ValueError", returned |-> FALSE]
         ELSE IF should_contain(block, new_child)
         THEN LET r == add_child(h, block, new_child, depth + 1)
              IN  [h |-> r.h, raised |-> r.raised, returned |-> TRUE]
         ELSE IF should_contain_raises(new_child, block)
         THEN [h |-> h, raised |-> "ValueError", returned |-> FALSE]
         ELSE IF should_contain(new_child, block)
         THEN LET r == add_child(remove_child(h, self, block),
                                 new_child, block, depth + 1)
              IN  IF r.raised # None
                  THEN [h |-> r.h, raised |-> r.raised, returned |-> FALSE]
                  ELSE scan_blocks(r.h, self, new_child, i + 1, depth)
         ELSE scan_blocks(h, self, new_child, i + 1, depth)

\* an add_child without the test for a root as new child
add_child_without_root_test(h, self, new_child, depth) ==
    IF depth > RecursionLimit
    THEN [h |-> h, raised |-> "RecursionError"]
    ELSE IF InList(new_child, h.children[self])
    THEN [h |-> h, raised |-> None]
    ELSE IF are_children_block(h, self) /\ IsBlock(new_child)
    THEN LET r == scan_blocks(h, self, new_child, 1, depth)
         IN  IF r.raised # None \/ r.returned
             THEN [h |-> r.h, raised |-> r.raised]
             ELSE [h |-> attach(r.h, self, new_child), raised |-> None]
    ELSE [h |-> attach(h, self, new_child), raised |-> None]

\* an add_child without the test `new_child in self.children`
add_child_without_listed_test(h, self, new_child, depth) ==
    IF depth > RecursionLimit
    THEN [h |-> h, raised |-> "RecursionError"]
    ELSE IF IsRootClass(new_child)
    THEN [h |-> h, raised |-> None]
    ELSE IF are_children_block(h, self) /\ IsBlock(new_child)
    THEN LET r == scan_blocks(h, self, new_child, 1, depth)
         IN  IF r.raised # None \/ r.returned
             THEN [h |-> r.h, raised |-> r.raised]
             ELSE [h |-> attach(r.h, self, new_child), raised |-> None]
    ELSE [h |-> attach(h, self, new_child), raised |-> None]

\* an add_child that scans the children for every block as new child,
\* whatever the children are
add_child_scans_any_children(h, self, new_child, depth) ==
    IF depth > RecursionLimit
    THEN [h |-> h, raised |-> "RecursionError"]
    ELSE IF IsRootClass(new_child)
    THEN [h |-> h, raised |-> None]
    ELSE IF InList(new_child, h.children[self])
    THEN [h |-> h, raised |-> None]
    ELSE IF IsBlock(new_child)
    THEN LET r == scan_blocks(h, self, new_child, 1, depth)
         IN  IF r.raised # None \/ r.returned
             THEN [h |-> r.h, raised |-> r.raised]
             ELSE [h |-> attach(r.h, self, new_child), raised |-> None]
    ELSE [h |-> attach(h, self, new_child), raised |-> None]

\* self.add_child(new_child) in a frame at the given depth: the heap it
\* leaves and the exception it raised, if any
add_child(h, self, new_child, depth) ==
    IF depth > RecursionLimit
    THEN [h |-> h, raised |-> "RecursionError"]
    ELSE IF IsRootClass(new_child)
    THEN [h |-> h, raised |-> None]
    ELSE IF InList(new_child, h.children[self])
    THEN [h |-> h, raised |-> None]
    ELSE IF are_children_block(h, self) /\ IsBlock(new_child)
    THEN LET r == scan_blocks(h, self, new_child, 1, depth)
         IN  IF r.raised # None \/ r.returned
             THEN [h |-> r.h, raised |-> r.raised]
             ELSE [h |-> attach(r.h, self, new_child), raised |-> None]
    ELSE [h |-> attach(h, self, new_child), raised |-> None]

(***************************************************************************)
(* ICDEntry.__init__(code, title, parent, children) on the new object      *)
(* self.  The constructor calls parent.add_child(self) before it sets      *)
(* self.code and self.children, so during that call a should_contain that  *)
(* reads the code of self raises AttributeError.                           *)
(***************************************************************************)
\* block.should_contain(new_child) or new_child.should_contain(block) reads
\* the code of new_child: both are ICD10CMBlock instances (start_code is
\* read after the isinstance and identity tests)
reads_code(block, new_child) ==
    IsICD10CMBlock(block) /\ IsICD10CMBlock(new_child) /\ block # new_child

\* parent.add_child(self) for a self that has no code yet: no block can
\* be found to contain it or to be contained in it, so the scan either
\* raises at the first block whose test reads the code or moves nothing
add_child_unset(h, self, new_child) ==
    IF IsRootClass(new_child) THEN [h |-> h, raised |-> None]
    ELSE IF InList(new_child, h.children[self])
    THEN [h |-> h, raised |-> None]
    ELSE IF /\ are_children_block(h, self)
            /\ IsBlock(new_child)
            /\ \E i \in 1..Len(h.children[self]) :
                  reads_code(h.children[self][i], new_child)
    THEN [h |-> h, raised |-> "AttributeError"]
    ELSE [h |-> attach(h, self, new_child), raised |-> None]

\* self.add_child(child) for an element of the children argument, which
\* may be no entry: then `new_child.parent` raises AttributeError
add_child_any(h, self, child) ==
    IF child = NotAnEntry THEN [h |-> h, raised |-> "AttributeError"]
    ELSE add_child(h, self, child, 1)

\* for child in children: self.add_child(child)
RECURSIVE init_children(_, _, _, _)
init_children(h, self, children_arg, i) ==
    IF i > Len(children_arg) THEN [h |-> h, raised |-> None]
    ELSE LET r == add_child_any(h, self, children_arg[i])
         IN  IF r.raised # None THEN r
             ELSE init_children(r.h, self, children_arg, i + 1)

\* a constructor that does not add the children it is given
init_without_children(h, self, parent_arg, children_arg) ==
    IF parent_arg = None THEN [h |-> h, raised |-> None]
    ELSE IF parent_arg = NotAnEntry THEN [h |-> h, raised |-> "TypeError"]
    ELSE add_child_unset(h, parent_arg, self)

\* ICDEntry.__init__; a children argument of None is the empty list
init(h, self, parent_arg, children_arg) ==
    IF parent_arg = None THEN init_children(h, self, children_arg, 1)
    ELSE IF parent_arg = NotAnEntry THEN [h |-> h, raised |-> "TypeError"]
    ELSE LET r == add_child_unset(h, parent_arg, self)
         IN  IF r.raised # None THEN r
             ELSE init_children(r.h, self, children_arg, 1)

(***************************************************************************)
(* Read-only properties of an entry.  A property that recurses up the      *)
(* parent chain yields [v, raised]: its value, or the exception it raised  *)
(* (AttributeError on a parentless entry that is no root, RecursionError   *)
(* on a cyclic chain).                                                     *)
(***************************************************************************)
is_root(h, e) == IsRootClass(e) /\ h.parent[e] = None

RECURSIVE root(_, _, _)
root(h, e, frames) ==
    IF frames > RecursionLimit
    THEN [v |-> None, raised |-> "RecursionError"]
    ELSE IF is_root(h, e)
    THEN [v |-> e, raised |-> None]
    ELSE IF h.parent[e] = None
    THEN [v |-> None, raised |-> "AttributeError"]
    ELSE root(h, h.parent[e], frames + 1)

\* a depth that counts the root as level 0
RECURSIVE depth_from_zero(_, _, _)
depth_from_zero(h, e, frames) ==
    IF frames > RecursionLimit
    THEN [v |-> 0, raised |-> "RecursionError"]
    ELSE IF is_root(h, e)
    THEN [v |-> 0, raised |-> None]
    ELSE IF h.parent[e] = None
    THEN [v |-> 0, raised |-> "AttributeError"]
    ELSE LET d == depth_from_zero(h, h.parent[e], frames + 1)
         IN  IF d.raised # None THEN d
             ELSE [v |-> 1 + d.v, raised |-> None]

RECURSIVE depth(_, _, _)
depth(h, e, frames) ==
    IF frames > RecursionLimit
    THEN [v |-> 0, raised |-> "RecursionError"]
    ELSE IF is_root(h, e)
    THEN [v |-> 1, raised |-> None]
    ELSE IF h.parent[e] = None
    THEN [v |-> 0, raised |-> "AttributeError"]
    ELSE LET d == depth(h, h.parent[e], frames + 1)
         IN  IF d.raised # None THEN d
             ELSE [v |-> 1 + d.v, raised |-> None]

(***************************************************************************)
(* code_matches, search, exists and get.  Each call yields [v, raised].    *)
(***************************************************************************)
\* code.replace('.', '')
dotless(code) == SelectSeq(code, LAMBDA c : c # ".")

\* q in s, for Python strings
IsSubstring(q, s) ==
    \E i \in 0..(Len(s) - Len(q)) : SubSeq(s, i + 1, i + Len(q)) = q

\* a code_matches that compares with the code as written only
code_matches_dotted_only(e, code) == IsSubstring(code, CodeOf(e))

code_matches(e, code) ==
    IsSubstring(code, CodeOf(e)) \/ IsSubstring(code, dotless(CodeOf(e)))

\* An Optional[int] argument is a sequence: <<>> is None, <<n>> the int n.
NoMaxdepth == <<>>

\* a guard that cuts off below maxdepth instead of at it
depth_cutoff_below(h, self, maxdepth, frames) ==
    IF maxdepth = NoMaxdepth THEN [v |-> FALSE, raised |-> None]
    ELSE LET d == depth(h, self, frames + 1)
         IN  IF d.raised # None THEN [v |-> FALSE, raised |-> d.raised]
             ELSE [v |-> maxdepth[1] < d.v, raised |-> None]

\* the guard `maxdepth is not None and maxdepth <= self.depth`
depth_cutoff(h, self, maxdepth, frames) ==
    IF maxdepth = NoMaxdepth THEN [v |-> FALSE, raised |-> None]
    ELSE LET d == depth(h, self, frames + 1)
         IN  IF d.raised # None THEN [v |-> FALSE, raised |-> d.raised]
             ELSE [v |-> maxdepth[1] <= d.v, raised |-> None]

RECURSIVE search(_, _, _, _, _)
RECURSIVE search_children(_, _, _, _, _, _, _)

\* the loop `for child in self.children: res = [*res, *child.search(...)]`
search_children(h, self, code, maxdepth, i, res, frames) ==
    IF i > Len(h.children[self]) THEN [v |-> res, raised |-> None]
    ELSE LET r == search(h, h.children[self][i], code, maxdepth, frames + 1)
         IN  IF r.raised # None THEN r
             ELSE search_children(h, self, code, maxdepth, i + 1,
                                  res \o r.v, frames)

search(h, self, code, maxdepth, frames) ==
    IF frames > RecursionLimit THEN [v |-> <<>>, raised |-> "RecursionError"]
    ELSE LET cut == depth_cutoff(h, self, maxdepth, frames) IN
         IF cut.raised # None THEN [v |-> <<>>, raised |-> cut.raised]
         ELSE IF cut.v THEN [v |-> <<>>, raised |-> None]
         ELSE search_children(h, self, code, maxdepth, 1,
                              IF code_matches(self, code) THEN <<self>>
                              ELSE <<>>,
                              frames)

RECURSIVE exists(_, _, _, _, _)
RECURSIVE exists_children(_, _, _, _, _, _)

\* any(child.exists(code, maxdepth) for child in self.children)
exists_children(h, self, code, maxdepth, i, frames) ==
    IF i > Len(h.children[self]) THEN [v |-> FALSE, raised |-> None]
    ELSE LET r == exists(h, h.children[self][i], code, maxdepth, frames + 1)
         IN  IF r.raised # None \/ r.v THEN r
             ELSE exists_children(h, self, code, maxdepth, i + 1, frames)

exists(h, self, code, maxdepth, frames) ==
    IF frames > RecursionLimit THEN [v |-> FALSE, raised |-> "RecursionError"]
    ELSE LET cut == depth_cutoff(h, self, maxdepth, frames) IN
         IF cut.raised # None THEN [v |-> FALSE, raised |-> cut.raised]
         ELSE IF cut.v THEN [v |-> FALSE, raised |-> None]
         ELSE IF code_matches(self, code) THEN [v |-> TRUE, raised |-> None]
         ELSE exists_children(h, self, code, maxdepth, 1, frames)

RECURSIVE get(_, _, _, _, _, _)
RECURSIVE get_children(_, _, _, _, _, _)

\* the loop over the children; the recursive call passes no kind, so the
\* children are searched for the default kind "category"
get_children(h, self, code, maxdepth, i, frames) ==
    IF i > Len(h.children[self]) THEN [v |-> None, raised |-> None]
    ELSE LET r == get(h, h.children[self][i], code, maxdepth, "category",
                      frames + 1)
         IN  IF r.raised # None \/ r.v # None THEN r
             ELSE get_children(h, self, code, maxdepth, i + 1, frames)

get(h, self, code, maxdepth, kind, frames) ==
    IF frames > RecursionLimit THEN [v |-> None, raised |-> "RecursionError"]
    ELSE LET cut == depth_cutoff(h, self, maxdepth, frames) IN
         IF cut.raised # None THEN [v |-> None, raised |-> cut.raised]
         ELSE IF cut.v THEN [v |-> None, raised |-> None]
         ELSE IF code_matches(self, code) /\ Kind(self) = kind
         THEN [v |-> self, raised |-> None]
         ELSE get_children(h, self, code, maxdepth, 1, frames)

(***************************************************************************)
(* The traversals __len__, entries and leaves.  Each yields [v, raised];   *)
(* a generator is modelled by the list of what it yields, and raises when  *)
(* one of the nested generators does.                                      *)
(***************************************************************************)
RECURSIVE len(_, _, _)
RECURSIVE len_children(_, _, _, _)

\* sum([len(child) for child in self.children])
len_children(h, self, i, frames) ==
    IF i > Len(h.children[self]) THEN [v |-> 0, raised |-> None]
    ELSE LET r == len(h, h.children[self][i], frames + 1)
         IN  IF r.raised # None THEN r
             ELSE LET rest == len_children(h, self, i + 1, frames)
                  IN  IF rest.raised # None THEN rest
                      ELSE [v |-> r.v + rest.v, raised |-> None]

\* a __len__ that counts only the entries below self
len_without_self(h, self, frames) ==
    IF frames > RecursionLimit THEN [v |-> 0, raised |-> "RecursionError"]
    ELSE len_children(h, self, 1, frames)

\* ICDEntry.__len__
len(h, self, frames) ==
    IF frames > RecursionLimit THEN [v |-> 0, raised |-> "RecursionError"]
    ELSE LET s == len_children(h, self, 1, frames)
         IN  IF s.raised # None THEN s
             ELSE [v |-> 1 + s.v, raised |-> None]

RECURSIVE entries_iter(_, _, _)
RECURSIVE entries_children(_, _, _, _, _)

\* for child in self.children: yield from child.entries
entries_children(h, self, i, res, frames) ==
    IF i > Len(h.children[self]) THEN [v |-> res, raised |-> None]
    ELSE LET r == entries_iter(h, h.children[self][i], frames + 1)
         IN  IF r.raised # None THEN r
             ELSE entries_children(h, self, i + 1, res \o r.v, frames)

\* an entries that yields self after the entries of its children
entries_self_last(h, self, frames) ==
    IF frames > RecursionLimit THEN [v |-> <<>>, raised |-> "RecursionError"]
    ELSE LET r == entries_children(h, self, 1, <<>>, frames)
         IN  IF r.raised # None THEN r
             ELSE [v |-> Append(r.v, self), raised |-> None]

\* the property ICDEntry.entries, as the list of what it yields
entries_iter(h, self, frames) ==
    IF frames > RecursionLimit THEN [v |-> <<>>, raised |-> "RecursionError"]
    ELSE entries_children(h, self, 1, <<self>>, frames)

is_leaf(h, self) == Len(h.children[self]) = 0

RECURSIVE leaves(_, _, _)
RECURSIVE leaves_children(_, _, _, _, _)

\* for child in self.children: yield from child.leaves
leaves_children(h, self, i, res, frames) ==
    IF i > Len(h.children[self]) THEN [v |-> res, raised |-> None]
    ELSE LET r == leaves(h, h.children[self][i], frames + 1)
         IN  IF r.raised # None THEN r
             ELSE leaves_children(h, self, i + 1, res \o r.v, frames)

\* the property ICDEntry.leaves, as the list of what it yields
leaves(h, self, frames) ==
    IF frames > RecursionLimit THEN [v |-> <<>>, raised |-> "RecursionError"]
    ELSE IF is_leaf(h, self) THEN [v |-> <<self>>, raised |-> None]
    ELSE leaves_children(h, self, 1, <<>>, frames)

(***************************************************************************)
(* tree and ancestry.  The rendered text is the list of its lines; a line  *)
(* is the list of its pieces: indentation blocks, a branch connector and   *)
(* str(entry), which is written <<"str", entry>>.                          *)
(***************************************************************************)
str(e) == <<"str", e>>

\* the box-drawing connectors of tree and ancestry, written in ASCII
Indent == "    "
Bar == "|   "
LastBranch == "L---"
MidBranch == "+---"

\* prefix + branch + text, for a text of at least one line
Prepend(pieces, text) == <<pieces \o Head(text)>> \o Tail(text)

RECURSIVE tree(_, _, _, _, _)
RECURSIVE tree_children(_, _, _, _, _, _, _)

\* the loop `for i, child in enumerate(self.children)` of tree
tree_children(h, self, prefix, maxdepth, i, res, frames) ==
    IF i > Len(h.children[self]) THEN [v |-> res, raised |-> None]
    ELSE LET last_child == i = Len(h.children[self])
             branch     == IF last_child THEN LastBranch ELSE MidBranch
             new_prefix == prefix \o <<IF last_child THEN Indent ELSE Bar>>
             r == tree(h, h.children[self][i], new_prefix, maxdepth,
                       frames + 1)
         IN  IF r.raised # None THEN r
             ELSE tree_children(h, self, prefix, maxdepth, i + 1,
                                res \o Prepend(prefix \o <<branch>>, r.v),
                                frames)

\* self.tree(prefix, maxdepth): the text it prints or returns
tree(h, self, prefix, maxdepth, frames) ==
    IF frames > RecursionLimit THEN [v |-> <<>>, raised |-> "RecursionError"]
    ELSE LET res == <<<<str(self)>>>>
             cut == depth_cutoff(h, self, maxdepth, frames) IN
         IF cut.raised # None THEN [v |-> <<>>, raised |-> cut.raised]
         ELSE IF cut.v THEN [v |-> res, raised |-> None]
         ELSE tree_children(h, self, prefix, maxdepth, 1, res, frames)

\* num * "    "
RECURSIVE Repeat(_, _)
Repeat(piece, num) ==
    IF num <= 0 THEN <<>> ELSE <<piece>> \o Repeat(piece, num - 1)

\* an ancestry that indents an entry by one block per ancestor
RECURSIVE ancestry_indent_per_ancestor(_, _, _)
ancestry_indent_per_ancestor(h, self, frames) ==
    IF frames > RecursionLimit THEN [v |-> <<>>, raised |-> "RecursionError"]
    ELSE IF is_root(h, self) THEN [v |-> <<<<str(self)>>>>, raised |-> None]
    ELSE LET d == depth(h, self, frames + 1) IN
         IF d.raised # None THEN [v |-> <<>>, raised |-> d.raised]
         ELSE LET up == ancestry_indent_per_ancestor(h, h.parent[self],
                                                     frames + 1) IN
              IF up.raised # None THEN up
              ELSE [v |-> Append(up.v, Repeat(Indent, d.v - 1)
                                          \o <<LastBranch, str(self)>>),
                    raised |-> None]

\* self.ancestry(): the text it prints or returns
RECURSIVE ancestry(_, _, _)
ancestry(h, self, frames) ==
    IF frames > RecursionLimit THEN [v |-> <<>>, raised |-> "RecursionError"]
    ELSE IF is_root(h, self) THEN [v |-> <<<<str(self)>>>>, raised |-> None]
    ELSE LET d == depth(h, self, frames + 1) IN
         IF d.raised # None THEN [v |-> <<>>, raised |-> d.raised]
         ELSE LET up == ancestry(h, h.parent[self], frames + 1) IN
              IF up.raised # None THEN up
              ELSE [v |-> Append(up.v, Repeat(Indent, d.v - 2)
                                          \o <<LastBranch, str(self)>>),
                    raised |-> None]

(***************************************************************************)
(* The release of a codex.  It is stored in the attribute _release of an   *)
(* ICDRoot; rel is the map from objects to the value of that attribute.    *)
(***************************************************************************)
\* self.release
release(h, rel, self, frames) ==
    IF frames > RecursionLimit THEN [v |-> None, raised |-> "RecursionError"]
    ELSE IF is_root(h, self) THEN [v |-> rel[self], raised |-> None]
    ELSE LET r == root(h, self, frames + 1) IN
         IF r.raised # None THEN r
         ELSE [v |-> rel[r.v], raised |-> None]

\* a setter that stores the release in any entry
set_release_unguarded(h, rel, self, new_release) ==
    [rel |-> [rel EXCEPT ![self] = new_release], raised |-> None]

\* self.release = new_release
set_release(h, rel, self, new_release) ==
    IF ~is_root(h, self)
    THEN [rel |-> rel, raised |-> "AttributeError"]
    ELSE [rel |-> [rel EXCEPT ![self] = new_release], raised |-> None]

(***************************************************************************)
(* The state machine: a program that has constructed the objects of        *)
(* `entries` and calls add_child and remove_child on them in any order.    *)
(***************************************************************************)
heap == [parent |-> parent, children |-> children]

\* no call of a read-only method has been answered since the tree last
\* changed
NoAnswer == [op |-> "none", self |-> None, code |-> <<>>, maxdepth |-> <<>>,
             kind |-> None, v |-> None, raised |-> None]

\* the release every ICDRoot is constructed with
FirstRelease == "2022"

Fresh ==
    /\ parent = [e \in Catalogue |-> None]
    /\ children = [e \in Catalogue |-> <<>>]
    /\ _release = [e \in Catalogue |->
                      IF IsRootClass(e) THEN FirstRelease ELSE None]
    /\ last = [op |-> "init", self |-> None, child |-> None,
               old_parent |-> None, raised |-> None]
    /\ order = <<>>
    /\ answer = NoAnswer

\* the sets of objects the programs of the general specification construct
Codices ==
    {{"R", "C", "K", "B1"}, {"R", "K", "B1", "B3"}, {"R", "B1", "B2", "B3"}}

Init ==
    /\ entries \in Codices
    /\ Fresh

\* the call self.add_child(new_child); last records the call, the parent
\* new_child had before it and the exception it ended with
call_add_child(self, new_child) ==
    LET r == add_child(heap, self, new_child, 1) IN
    /\ parent' = r.h.parent
    /\ children' = r.h.children
    /\ last' = [op |-> "add_child", self |-> self, child |-> new_child,
                old_parent |-> parent[new_child], raised |-> r.raised]

AddChild(self, new_child) ==
    /\ call_add_child(self, new_child)
    /\ UNCHANGED <<_release, entries, order, answer>>

RemoveChild(self, child) ==
    LET h == remove_child(heap, self, child) IN
    /\ parent' = h.parent
    /\ children' = h.children
    /\ last' = [op |-> "remove_child", self |-> self, child |-> child,
                old_parent |-> parent[child], raised |-> None]
    /\ UNCHANGED <<_release, entries, order, answer>>

Next ==
    \/ \E self \in entries, new_child \in entries : AddChild(self, new_child)
    \/ \E self \in entries, child \in entries : RemoveChild(self, child)

Spec == Init /\ [][Next]_vars

(***************************************************************************)
(* Assembly of a codex as the from_xml class methods do it: one entry (a   *)
(* root or a chapter) receives every block of the source document through  *)
(* add_child, each block once, in the order of the document.  The order is *)
(* arbitrary; `order` records it.                                          *)
(***************************************************************************)
AssemblyCodices ==
    {{"C", "B1", "B2", "B3", "B4"}, {"R", "B1", "B2", "B3", "B4"},
     {"C", "B1", "B2", "B3"}}

\* the entry the blocks are added to
Top == CHOOSE e \in entries : ~IsBlock(e)

Blocks == {b \in entries : IsBlock(b)}

InitAssembly ==
    /\ entries \in AssemblyCodices
    /\ Fresh

Assemble(block) ==
    /\ ~InList(block, order)
    /\ call_add_child(Top, block)
    /\ order' = Append(order, block)
    /\ UNCHANGED <<_release, entries, answer>>

NextAssembly == \E block \in Blocks : Assemble(block)

SpecAssembly == InitAssembly /\ [][NextAssembly]_vars

\* every block of the document has been added
Assembled == Len(order) = Cardinality(Blocks)

\* the heap after top.add_child(block) for the blocks of seq, in that order
RECURSIVE assemble(_, _, _)
assemble(h, top, seq) ==
    IF seq = <<>> THEN h
    ELSE assemble(add_child(h, top, Head(seq), 1).h, top, Tail(seq))

\* the blocks of the codex listed top-down: a block follows every block
\* whose range contains its own
TopDown == SelectSeq(<<"B4", "B3", "B1", "B2">>, LAMBDA b : b \in entries)

(***************************************************************************)
(* A program that loads a codex and queries it: freshly made entries are   *)
(* attached with add_child, and search, exists and get are called on the   *)
(* root.  `answer` holds the call that was made and its result until       *)
(* the caller has taken it (Return); the calls are synchronous, so the     *)
(* next call starts after that.                                            *)
(***************************************************************************)
\* the entries on the parent chain of e
RECURSIVE ParentChain(_, _, _)
ParentChain(pa, e, fuel) ==
    IF pa[e] = None \/ fuel = 0 THEN {}
    ELSE {pa[e]} \cup ParentChain(pa, pa[e], fuel - 1)

Ancestors(pa, e) == ParentChain(pa, e, Cardinality(Catalogue))

QueryCodices == {{"R", "C", "B1", "K"}, {"R", "B3", "B1", "K"}}

TheRoot == CHOOSE r \in entries : IsRootClass(r)

\* the codes a caller asks for: the codes of the entries, with and without
\* the dot, a partial code and a code no entry has
QueryCodes ==
    {CodeOf(e) : e \in entries} \cup {dotless(CodeOf(e)) : e \in entries}
        \cup {<<"A", "0", "0">>, <<"Z">>}

Maxdepths == {NoMaxdepth} \cup {<<d>> : d \in 0..MaxMaxdepth}

Kinds == {"root", "chapter", "block", "category"}

InitQuery ==
    /\ entries \in QueryCodices
    /\ Fresh

\* a parentless entry, with the subtree built below it so far, is attached
Load(self, new_child) ==
    /\ parent[new_child] = None
    /\ new_child \notin {self} \cup Ancestors(parent, self)
    /\ answer.op = "none"
    /\ call_add_child(self, new_child)
    /\ UNCHANGED <<_release, entries, order, answer>>

Search(self, code, maxdepth) ==
    LET r == search(heap, self, code, maxdepth, 1) IN
    /\ answer.op = "none"
    /\ answer' = [op |-> "search", self |-> self, code |-> code,
                  maxdepth |-> maxdepth, kind |-> None,
                  v |-> r.v, raised |-> r.raised]
    /\ UNCHANGED <<_release, entries, parent, children, last, order>>

Exists(self, code, maxdepth) ==
    LET r == exists(heap, self, code, maxdepth, 1) IN
    /\ answer.op = "none"
    /\ answer' = [op |-> "exists", self |-> self, code |-> code,
                  maxdepth |-> maxdepth, kind |-> None,
                  v |-> r.v, raised |-> r.raised]
    /\ UNCHANGED <<_release, entries, parent, children, last, order>>

Get(self, code, maxdepth, kind) ==
    LET r == get(heap, self, code, maxdepth, kind, 1) IN
    /\ answer.op = "none"
    /\ answer' = [op |-> "get", self |-> self, code |-> code,
                  maxdepth |-> maxdepth, kind |-> kind,
                  v |-> r.v, raised |-> r.raised]
    /\ UNCHANGED <<_release, entries, parent, children, last, order>>

Return ==
    /\ answer.op # "none"
    /\ answer' = NoAnswer
    /\ UNCHANGED <<_release, entries, parent, children, last, order>>

NextQuery ==
    \/ \E self \in entries, new_child \in entries : Load(self, new_child)
    \/ \E code \in QueryCodes, maxdepth \in Maxdepths :
          Search(TheRoot, code, maxdepth)
    \/ \E code \in QueryCodes, maxdepth \in Maxdepths :
          Exists(TheRoot, code, maxdepth)
    \/ \E code \in QueryCodes, maxdepth \in Maxdepths, kind \in Kinds :
          Get(TheRoot, code, maxdepth, kind)
    \/ Return

SpecQuery == InitQuery /\ [][NextQuery]_vars

(***************************************************************************)
(* A program that edits a structure with add_child and remove_child in any *)
(* order and calls the read-only methods on any of its entries, attached   *)
(* or not.                                                                 *)
(***************************************************************************)
TraverseCodices == {{"R", "B1", "B3"}, {"R", "C", "K"}}

\* a partial code of blocks and categories, one of root and chapter, and a
\* code no entry has
TraverseCodes == {<<"A", "0", "0">>, <<"I">>, <<"Z">>}

InitTraverse ==
    /\ entries \in TraverseCodices
    /\ Fresh

TraverseAdd(self, new_child) ==
    /\ answer.op = "none"
    /\ AddChild(self, new_child)

TraverseRemove(self, child) ==
    /\ answer.op = "none"
    /\ RemoveChild(self, child)

\* a call of a method without code or kind argument, answered with r
Answer(op, self, maxdepth, r) ==
    /\ answer.op = "none"
    /\ answer' = [op |-> op, self |-> self, code |-> <<>>,
                  maxdepth |-> maxdepth, kind |-> None,
                  v |-> r.v, raised |-> r.raised]
    /\ UNCHANGED <<_release, entries, parent, children, last, order>>

Tree(self, maxdepth) ==
    Answer("tree", self, maxdepth, tree(heap, self, <<>>, maxdepth, 1))

Ancestry(self) ==
    Answer("ancestry", self, NoMaxdepth, ancestry(heap, self, 1))

\* list(self.leaves)
Leaves(self) == Answer("leaves", self, NoMaxdepth, leaves(heap, self, 1))

\* list(self.entries)
Entries(self) ==
    Answer("entries", self, NoMaxdepth, entries_iter(heap, self, 1))

\* len(self)
Length(self) == Answer("len", self, NoMaxdepth, len(heap, self, 1))

NextTraverse ==
    \/ \E self \in entries, new_child \in entries :
          TraverseAdd(self, new_child)
    \/ \E self \in entries, child \in entries : TraverseRemove(self, child)
    \/ \E self \in entries, code \in TraverseCodes, maxdepth \in Maxdepths :
          Search(self, code, maxdepth)
    \/ \E self \in entries, code \in TraverseCodes, maxdepth \in Maxdepths :
          Exists(self, code, maxdepth)
    \/ \E self \in entries, code \in TraverseCodes, maxdepth \in Maxdepths,
          kind \in Kinds : Get(self, code, maxdepth, kind)
    \/ \E self \in entries, maxdepth \in Maxdepths : Tree(self, maxdepth)
    \/ \E self \in entries : Ancestry(self)
    \/ \E self \in entries : Leaves(self)
    \/ \E self \in entries : Entries(self)
    \/ \E self \in entries : Length(self)
    \/ Return

SpecTraverse == InitTraverse /\ [][NextTraverse]_vars

(***************************************************************************)
(* A program that calls code_matches on the entries it has constructed.    *)
(***************************************************************************)
\* s without its i-th character
Drop(s, i) == SubSeq(s, 1, i - 1) \o SubSeq(s, i + 1, Len(s))

\* the codes asked for: every piece of a code, with or without the dots,
\* and the codes with one character left out
MatchCodes ==
    LET codes == {CodeOf(e) : e \in Catalogue}
                     \cup {dotless(CodeOf(e)) : e \in Catalogue}
    IN  UNION {{SubSeq(c, i, j) : i \in 1..Len(c), j \in 0..Len(c)} :
                   c \in codes}
            \cup UNION {{Drop(c, i) : i \in 1..Len(c)} : c \in codes}

InitMatch ==
    /\ entries = Catalogue
    /\ Fresh

CodeMatches(self, code) ==
    /\ answer.op = "none"
    /\ answer' = [op |-> "code_matches", self |-> self, code |-> code,
                  maxdepth |-> NoMaxdepth, kind |-> None,
                  v |-> code_matches(self, code), raised |-> None]
    /\ UNCHANGED <<_release, entries, parent, children, last, order>>

NextMatch ==
    \/ \E self \in entries, code \in MatchCodes : CodeMatches(self, code)
    \/ Return

SpecMatch == InitMatch /\ [][NextMatch]_vars

(***************************************************************************)
(* A program that builds a structure with constructor calls only: each     *)
(* call makes a new object and may name an entry made before as parent and *)
(* a list of such entries as children.  `entries` holds the objects the    *)
(* program makes, `order` those whose constructor has returned, in that    *)
(* order.  The program does not catch exceptions: it ends with the first   *)
(* constructor call that raises.                                           *)
(***************************************************************************)
\* the sets of objects the constructing programs make
ConstructCodices ==
    {{"R", "B1", "B3", "B4"}, {"K", "B1", "BX"}, {"R", "K", "B1"}}

\* the entries whose constructor returned
Built == {order[i] : i \in 1..Len(order)}

\* the lists of at most n different elements of S
RECURSIVE Lists(_, _)
Lists(S, n) ==
    IF n = 0 THEN {<<>>}
    ELSE LET shorter == Lists(S, n - 1)
         IN  shorter \cup
                 UNION {{Append(l, x) : x \in S \ {l[i] : i \in 1..Len(l)}} :
                           l \in shorter}

\* the children arguments: lists of entries, and such lists with a value
\* that is no entry at their end (what follows it would not be looked at)
ChildrenArgs ==
    Lists(Built, MaxChildren)
        \cup {Append(l, NotAnEntry) : l \in Lists(Built, MaxChildren - 1)}

InitConstruct ==
    /\ entries \in ConstructCodices
    /\ Fresh

Construct(self, parent_arg, children_arg) ==
    LET r == init(heap, self, parent_arg, children_arg) IN
    /\ last.raised = None
    /\ self \notin Built
    /\ parent' = r.h.parent
    /\ children' = r.h.children
    /\ last' = [op |-> "__init__", self |-> self, parent |-> parent_arg,
                children |-> children_arg, raised |-> r.raised]
    /\ order' = IF r.raised = None THEN Append(order, self) ELSE order
    /\ UNCHANGED <<_release, entries, answer>>

NextConstruct ==
    \E self \in entries, parent_arg \in Built \cup {None, NotAnEntry},
       children_arg \in ChildrenArgs :
        Construct(self, parent_arg, children_arg)

SpecConstruct == InitConstruct /\ [][NextConstruct]_vars

(***************************************************************************)
(* Properties.                                                             *)
(***************************************************************************)
\* C1: after any sequence of add_child and remove_child calls, parent and
\* children agree in both directions: every listed child's parent is the
\* entry that lists it, and every entry with a parent is listed in that
\* parent's children.
C1_ParentChildrenAgree ==
    \A e \in Catalogue :
        /\ \A i \in 1..Len(children[e]) : parent[children[e][i]] = e
        /\ parent[e] # None => InList(e, children[parent[e]])

\* a tree of two levels below its top, reached by a removal that did remove
C1_Witness ==
    /\ last.op = "remove_child"
    /\ last.old_parent = last.self
    /\ parent[last.child] = None
    /\ \E c \in entries : parent[c] # None /\ parent[parent[c]] # None

\* the entries that list c among their children, and how often e lists c
Owners(ch, c) == {e \in Catalogue : InList(c, ch[e])}

Occurrences(lst, c) == Cardinality({i \in 1..Len(lst) : lst[i] = c})

\* the step is a completed call self.add_child(new_child)
AddChildStep(self, new_child) ==
    /\ last'.op = "add_child"
    /\ last'.self = self
    /\ last'.child = new_child
    /\ last'.raised = None

\* the step is a call self.remove_child(child)
RemoveChildStep(self, child) ==
    /\ last'.op = "remove_child"
    /\ last'.self = self
    /\ last'.child = child

\* C2: add_child(P, c) of a non-root c that is listed under another entry Q,
\* when no child of P should contain c, moves c: afterwards c is a child of
\* P with parent P, is no longer listed under Q, and is listed in exactly
\* one children list.
C2_AddChildMoves ==
    [][\A P \in entries, Q \in entries, c \in entries :
          ( /\ AddChildStep(P, c)
            /\ ~IsRootClass(c)
            /\ Q # P
            /\ InList(c, children[Q])
            /\ \A i \in 1..Len(children[P]) :
                   ~should_contain(children[P][i], c) )
          => /\ InList(c, children'[P])
             /\ ~InList(c, children'[Q])
             /\ parent'[c] = P
             /\ Owners(children', c) = {P}
             /\ Occurrences(children'[P], c) = 1]_vars

\* an add_child has moved an entry from another parent to the receiver
C2_Witness ==
    /\ last.op = "add_child"
    /\ last.raised = None
    /\ last.old_parent \notin {None, last.self}
    /\ parent[last.child] = last.self
    /\ InList(last.child, children[last.self])
    /\ ~InList(last.child, children[last.old_parent])

\* the children of P that new block N should contain, before the call
Absorbable(P, N) ==
    {S \in Catalogue : InList(S, children[P]) /\ should_contain(N, S)}

\* C3: add_child(P, N) with N a block, every child of P a block, no child
\* of P containing N and two or more children S of P that N should contain
\* moves every such S under N: afterwards each S is a child of N and not of
\* P, and N is a child of P.
C3_AbsorbsAllSiblings ==
    [][\A P \in entries, N \in entries :
          ( /\ AddChildStep(P, N)
            /\ IsBlock(N)
            /\ are_children_block(heap, P)
            /\ \A i \in 1..Len(children[P]) :
                   ~should_contain(children[P][i], N)
            /\ Cardinality(Absorbable(P, N)) >= 2 )
          => /\ InList(N, children'[P])
             /\ \A S \in Absorbable(P, N) :
                   InList(S, children'[N]) /\ ~InList(S, children'[P])]_vars

\* C4: add_child(P, N) with N a block, every child of P a block and some
\* child S of P that should contain N does not attach N to P: afterwards N
\* is not a child of P and lies below a child of P that should contain it.
C4_RedirectsIntoSibling ==
    [][\A P \in entries, N \in entries :
          ( /\ AddChildStep(P, N)
            /\ IsBlock(N)
            /\ are_children_block(heap, P)
            /\ \E i \in 1..Len(children[P]) :
                   should_contain(children[P][i], N) )
          => /\ ~InList(N, children'[P])
             /\ \E i \in 1..Len(children'[P]) :
                   /\ should_contain(children'[P][i], N)
                   /\ children'[P][i] \in Ancestors(parent', N)]_vars

\* C5: whatever the order in which the blocks of a codex are added to the
\* top entry, the assembled parent relation is the same; it is compared
\* with the one the top-down order yields.
C5_OrderIndependent ==
    Assembled => parent = assemble([parent   |-> [e \in Catalogue |-> None],
                                    children |-> [e \in Catalogue |-> <<>>]],
                                   Top, TopDown).parent

C7_RemoveChild ==
    [][\A P \in entries, c \in entries :
          RemoveChildStep(P, c)
          => /\ ~InList(c, children[P])
                  => parent' = parent /\ children' = children
             /\ InList(c, children[P])
                  => /\ Len(children'[P]) = Len(children[P]) - 1
                     /\ parent'[c] = IF parent[c] = P THEN None ELSE parent[c]
                     /\ \A e \in Catalogue \ {c} : parent'[e] = parent[e]
                     /\ \A e \in Catalogue \ {P} : children'[e] = children[e]
             /\ ~InList(c, children'[P])
             /\ remove_child([parent |-> parent', children |-> children'],
                             P, c)
                  = [parent |-> parent', children |-> children']]_vars

\* a remove_child has taken a child out of a list that keeps another child
C7_Witness ==
    /\ last.op = "remove_child"
    /\ last.old_parent = last.self
    /\ parent[last.child] = None
    /\ ~InList(last.child, children[last.self])
    /\ Len(children[last.self]) >= 1

\* C8: add_child(P, r) with r an ICDRoot instance does not raise and
\* changes no link; and in every state a root has no parent and is listed
\* in no children list.
C8_RootNeverChild ==
    /\ [][\A P \in entries, r \in entries :
            ( /\ last'.op = "add_child"
              /\ last'.self = P
              /\ last'.child = r
              /\ IsRootClass(r) )
            => /\ last'.raised = None
               /\ parent' = parent
               /\ children' = children]_vars
    /\ [](\A r \in Catalogue :
             IsRootClass(r) => parent[r] = None /\ Owners(children, r) = {})

\* add_child was called with the root as new child of one of its
\* descendants
C8_Witness ==
    /\ last.op = "add_child"
    /\ IsRootClass(last.child)
    /\ last.self # last.child
    /\ parent[last.self] # None
    /\ last.child \in Ancestors(parent, last.self)

\* the entries reachable from e through children lists
RECURSIVE Reachable(_, _, _)
Reachable(ch, e, fuel) ==
    {e} \cup IF fuel = 0 THEN {}
             ELSE UNION {Reachable(ch, ch[e][i], fuel - 1) :
                             i \in 1..Len(ch[e])}

Subtree(e) == Reachable(children, e, Cardinality(Catalogue))

\* C9: every entry reachable from a root through children lists is listed
\* in exactly one children list, exactly once, and its parent links lead to
\* that root without visiting an entry twice.
C9_SinglePathToRoot ==
    \A r \in entries : IsRootClass(r) =>
        \A e \in Subtree(r) \ {r} :
            /\ Cardinality(Owners(children, e)) = 1
            /\ \A o \in Owners(children, e) : Occurrences(children[o], e) = 1
            /\ root(heap, e, 1) = [v |-> r, raised |-> None]
            /\ depth(heap, e, 1).raised = None
            /\ depth(heap, e, 1).v <= Cardinality(entries)
            /\ e \notin Ancestors(parent, e)

\* an entry three levels below the root, after an add_child that moved an
\* entry away from another parent
C9_Witness ==
    /\ last.op = "add_child"
    /\ last.old_parent \notin {None, last.self}
    /\ \E r \in entries, e \in entries :
          /\ IsRootClass(r)
          /\ e \in Subtree(r)
          /\ depth(heap, e, 1) = [v |-> 4, raised |-> None]

\* C10: for search, exists and get called on the root with maxdepth = d and
\* every entry e of the tree: if depth(e) >= d, e is not in
\* search(e.code, d) and is not what get(e.code, d, e.kind) returns; if
\* depth(e) < d, e is in search(e.code, d), and exists(e.code, d) and
\* exists(e.code without '.', d) are true.
C10_DepthCutoff ==
    (answer.op # "none" /\ answer.maxdepth # NoMaxdepth) =>
        /\ answer.raised = None
        /\ \A e \in Subtree(TheRoot) :
              LET d  == answer.maxdepth[1]
                  de == depth(heap, e, 1).v
              IN  /\ (answer.op = "search" /\ answer.code = CodeOf(e))
                        => (InList(e, answer.v) <=> de < d)
                  /\ ( /\ answer.op = "get"
                       /\ answer.code = CodeOf(e)
                       /\ answer.kind = Kind(e)
                       /\ de >= d )
                        => answer.v # e
                  /\ ( /\ answer.op = "exists"
                       /\ answer.code \in {CodeOf(e), dotless(CodeOf(e))}
                       /\ de < d )
                        => answer.v = TRUE

\* a search for the code of an entry at depth d that returned another,
\* shallower entry and not that one
C10_Witness ==
    /\ answer.op = "search"
    /\ answer.maxdepth # NoMaxdepth
    /\ \E e \in Subtree(TheRoot), f \in Subtree(TheRoot) :
          /\ answer.code = CodeOf(e)
          /\ depth(heap, e, 1).v = answer.maxdepth[1]
          /\ ~InList(e, answer.v)
          /\ depth(heap, f, 1).v < answer.maxdepth[1]
          /\ InList(f, answer.v)

\* the entries below e
Descendants(e) == Subtree(e) \ {e}

\* C11 as stated: search with maxdepth = d includes an entry of depth
\* exactly d whose code matches, and none of its descendants.
C11_ExactDepthIncluded ==
    (answer.op = "search" /\ answer.maxdepth # NoMaxdepth) =>
        \A e \in Subtree(TheRoot) :
            ( /\ depth(heap, e, 1).v = answer.maxdepth[1]
              /\ code_matches(e, answer.code) )
            => /\ InList(e, answer.v)
               /\ \A f \in Descendants(e) : ~InList(f, answer.v)

\* C11: search with maxdepth = d does not test an entry whose depth is
\* exactly d: such an entry is not in the result even when its code
\* matches, and neither is any of its descendants; the deepest entries
\* tested are those of depth d - 1, which are in the result when their code
\* matches.
C11_ExactDepthExcluded ==
    (answer.op = "search" /\ answer.maxdepth # NoMaxdepth) =>
        /\ answer.raised = None
        /\ \A e \in Subtree(TheRoot) :
              LET d  == answer.maxdepth[1]
                  de == depth(heap, e, 1).v
              IN  /\ de = d => /\ ~InList(e, answer.v)
                               /\ \A f \in Descendants(e) :
                                     ~InList(f, answer.v)
                  /\ (de = d - 1 /\ code_matches(e, answer.code))
                        => InList(e, answer.v)

\* a search with maxdepth = d for a partial code that an entry of depth d
\* with a child matches, answered with the matching entry of depth d - 1
\* only
C11_Witness ==
    /\ answer.op = "search"
    /\ answer.maxdepth # NoMaxdepth
    /\ answer.code \notin {CodeOf(e) : e \in entries}
    /\ Len(answer.v) = 1
    /\ depth(heap, answer.v[1], 1).v = answer.maxdepth[1] - 1
    /\ \E e \in Subtree(TheRoot) :
          /\ depth(heap, e, 1).v = answer.maxdepth[1]
          /\ code_matches(e, answer.code)
          /\ Descendants(e) # {}

\* the entries of the tree below the root, in pre-order, that lie within
\* the depth cutoff of maxdepth
WithinCutoff(maxdepth) ==
    SelectSeq(entries_iter(heap, TheRoot, 1).v,
              LAMBDA e : \/ maxdepth = NoMaxdepth
                         \/ depth(heap, e, 1).v < maxdepth[1])

\* the entries within the cutoff whose code matches and whose kind is kind
Matches(code, maxdepth, kind) ==
    SelectSeq(WithinCutoff(maxdepth),
              LAMBDA e : code_matches(e, code) /\ Kind(e) = kind)

\* C12: get(code, maxdepth, kind) returns the first entry in pre-order,
\* within the depth cutoff, whose code matches and whose kind is the
\* requested one, and None exactly when there is no such entry, for every
\* requested kind and at every level of the tree.
C12_GetFirstOfKind ==
    answer.op = "get" =>
        LET m == Matches(answer.code, answer.maxdepth, answer.kind)
        IN  /\ answer.raised = None
            /\ answer.v = IF m = <<>> THEN None ELSE Head(m)

\* C13: in a tree whose entries have pairwise distinct codes, for every
\* entry e of the tree, of any kind and at any depth, get called on the
\* root with e's code and e's kind (and no maxdepth) returns e itself.
C13_GetRoundTrip ==
    (answer.op = "get" /\ answer.maxdepth = NoMaxdepth) =>
        \A e \in Subtree(TheRoot) :
            (answer.code = CodeOf(e) /\ answer.kind = Kind(e))
                => answer.v = e

\* C14: for every entry e, code and maxdepth (also without maxdepth),
\* exists(e, code, maxdepth) is true exactly when search(e, code, maxdepth)
\* is a non-empty list.
C14_ExistsIffSearchFinds ==
    answer.op = "exists" =>
        LET s == search(heap, answer.self, answer.code, answer.maxdepth, 1)
        IN  (answer.raised = None /\ answer.v = TRUE)
                <=> (s.raised = None /\ s.v # <<>>)

\* q is a contiguous piece of s: s is some text, then q, then some text
Contiguous(q, s) ==
    \E i \in 0..Len(s) :
        /\ i + Len(q) <= Len(s)
        /\ SubSeq(s, 1, i) \o q \o SubSeq(s, i + Len(q) + 1, Len(s)) = s

\* s with every '.' removed
RECURSIVE WithoutDots(_)
WithoutDots(s) ==
    IF s = <<>> THEN <<>>
    ELSE IF Head(s) = "." THEN WithoutDots(Tail(s))
    ELSE <<Head(s)>> \o WithoutDots(Tail(s))

\* C15: code_matches(e, q) is true exactly when q is a contiguous piece of
\* e.code or of e.code with every '.' removed; in particular an entry
\* matches its own code written with and without the dots.
C15_CodeMatches ==
    answer.op = "code_matches" =>
        LET code == CodeOf(answer.self)
            q    == answer.code
        IN  /\ answer.v <=> (Contiguous(q, code)
                                \/ Contiguous(q, WithoutDots(code)))
            /\ q \in {code, WithoutDots(code)} => answer.v = TRUE

\* the entry with a dot in its code was asked for its code without the dot
C15_Witness ==
    /\ answer.op = "code_matches"
    /\ answer.code # CodeOf(answer.self)
    /\ answer.code = WithoutDots(CodeOf(answer.self))
    /\ answer.v = TRUE

\* the tree below r is a linear chain: no entry has two children
Linear(r) == \A e \in Subtree(r) : Len(children[e]) <= 1

\* C16: in every state reached by add_child and remove_child calls, a root
\* has depth 1 and every other entry reachable from a root has the depth of
\* its parent plus 1 (one more than the number of its ancestors); in a
\* linear chain hanging from a root the i-th entry in pre-order, counted
\* from 0, has depth i + 1.
C16_DepthInvariant ==
    \A r \in entries : is_root(heap, r) =>
        /\ depth(heap, r, 1) = [v |-> 1, raised |-> None]
        /\ \A e \in Descendants(r) :
              /\ parent[e] # None
              /\ depth(heap, e, 1).raised = None
              /\ depth(heap, e, 1).v = depth(heap, parent[e], 1).v + 1
              /\ depth(heap, e, 1).v = Cardinality(Ancestors(parent, e)) + 1
        /\ Linear(r) =>
              LET es == entries_iter(heap, r, 1).v
              IN  \A i \in 0..(Len(es) - 1) :
                      depth(heap, es[i + 1], 1).v = i + 1

\* a linear chain of four entries hangs from a root, after a call of
\* add_child that moved its new child from another parent
C16_Witness ==
    /\ last.op = "add_child"
    /\ last.old_parent \notin {None, last.self}
    /\ \E r \in entries :
          /\ is_root(heap, r)
          /\ Linear(r)
          /\ Len(entries_iter(heap, r, 1).v) = 4

\* the structure below e is a tree: no entry below e lies below itself
TreeBelow(e) ==
    \A f \in Subtree(e) :
        \A i \in 1..Len(children[f]) : f \notin Subtree(children[f][i])

\* len(c) summed over the entries c of a list
RECURSIVE SumOfLen(_)
SumOfLen(lst) ==
    IF lst = <<>> THEN 0 ELSE len(heap, Head(lst), 1).v + SumOfLen(Tail(lst))

\* C17: in every reachable state and for every entry e with a tree below
\* it, len(e) is 1 plus the sum of len(c) over e.children, is the number of
\* entries e.entries yields (the number of entries of the tree), and is at
\* least the number of entries e.leaves yields.
C17_LengthInvariant ==
    \A e \in entries : TreeBelow(e) =>
        /\ len(heap, e, 1).raised = None
        /\ entries_iter(heap, e, 1).raised = None
        /\ leaves(heap, e, 1).raised = None
        /\ len(heap, e, 1).v = 1 + SumOfLen(children[e])
        /\ len(heap, e, 1).v = Len(entries_iter(heap, e, 1).v)
        /\ len(heap, e, 1).v = Cardinality(Subtree(e))
        /\ len(heap, e, 1).v >= Len(leaves(heap, e, 1).v)

\* a tree of three entries with two leaves, left by a removal that did
\* remove, next to an entry of length 1
C17_Witness ==
    /\ last.op = "remove_child"
    /\ last.old_parent = last.self
    /\ \E e \in entries, f \in entries :
          /\ TreeBelow(e)
          /\ len(heap, e, 1).v = 3
          /\ Len(leaves(heap, e, 1).v) = 2
          /\ len(heap, f, 1).v = 1

\* C18: search, exists, get, tree, ancestry, leaves and entries, called on
\* any entry of any structure reachable with add_child and remove_child
\* (attached, detached or the top of a detached subtree) and with any
\* maxdepth, never raise; and when no entry below the receiver matches the
\* code, search returns the empty list, exists false and get None.
C18_TraversalsTotal ==
    answer.op \in {"search", "exists", "get", "tree", "ancestry", "leaves",
                   "entries"} =>
        /\ answer.raised = None
        /\ (\A e \in Subtree(answer.self) : ~code_matches(e, answer.code)) =>
              /\ answer.op = "search" => answer.v = <<>>
              /\ answer.op = "exists" => answer.v = FALSE
              /\ answer.op = "get" => answer.v = None

\* the step is a constructor call that made self
InitStep(self) ==
    /\ last'.op = "__init__"
    /\ last'.self = self

\* the elements of a list
Elements(lst) == {lst[i] : i \in 1..Len(lst)}

\* C19: a constructor call that raises (TypeError for a parent that is no
\* entry, an exception for an invalid element of children or from a
\* containment check) leaves every children list and every parent link as
\* it was before the call.
C19_FailedInitLeavesNoLink ==
    [][\A self \in entries :
          (InitStep(self) /\ last'.raised # None)
              => (parent' = parent /\ children' = children)]_vars

BelowGiven(lst) == UNION {Subtree(c) : c \in Elements(lst)}

ReleaseCodices == {{"R", "C", "K"}, {"R", "B1", "B3"}}

\* the releases a program assigns
Releases == {"2022", "2023"}

InitRelease ==
    /\ entries \in ReleaseCodices
    /\ Fresh

\* self.release = new_release
SetRelease(self, new_release) ==
    LET r == set_release(heap, _release, self, new_release) IN
    /\ answer.op = "none"
    /\ _release' = r.rel
    /\ last' = [op |-> "release.setter", self |-> self,
                new_release |-> new_release, raised |-> r.raised]
    /\ UNCHANGED <<entries, parent, children, order, answer>>

\* self.release
GetRelease(self) ==
    Answer("release", self, NoMaxdepth, release(heap, _release, self, 1))

NextRelease ==
    \/ \E self \in entries, new_child \in entries :
          TraverseAdd(self, new_child)
    \/ \E self \in entries, child \in entries : TraverseRemove(self, child)
    \/ \E self \in entries, new_release \in Releases :
          SetRelease(self, new_release)
    \/ \E self \in entries : GetRelease(self)
    \/ Return

SpecRelease == InitRelease /\ [][NextRelease]_vars

\* the step is the call self.release = ...
SetReleaseStep(self) ==
    /\ last'.op = "release.setter"
    /\ last'.self = self
    /\ last' # last \/ _release' # _release

\* C21: the release read on an entry reachable from a root is that root's
\* release, whatever was assigned to the root before; assigning the release
\* of an entry that is no root raises AttributeError and changes neither a
\* release nor a link.
C21_ReleaseOfRoot ==
    /\ [](\A r \in entries :
            ( /\ is_root(heap, r)
              /\ answer.op = "release"
              /\ answer.self \in Subtree(r) )
            => (answer.raised = None /\ answer.v = _release[r]))
    /\ [][\A self \in entries :
            (SetReleaseStep(self) /\ ~IsRootClass(self))
            => /\ last'.raised = "AttributeError"
               /\ _release' = _release
               /\ parent' = parent
               /\ children' = children]_vars

\* the root's release has been changed and has then been read on an entry
\* two levels below the root
C21_Witness ==
    /\ answer.op = "release"
    /\ \E r \in entries :
          /\ is_root(heap, r)
          /\ _release[r] # FirstRelease
          /\ answer.self \in Subtree(r)
          /\ answer.self # r
          /\ parent[answer.self] # r
          /\ answer.v = _release[r]
    /\ last.op = "release.setter"
    /\ last.raised = "AttributeError"

\* the step is a call of add_child or remove_child that returned
Completed ==
    /\ last.op \in {"add_child", "remove_child"}
    /\ last.raised = None

\* C22 as stated: after a completed add_child or remove_child call every
\* parentless entry is of root kind.
C22_OnlyRootsParentless ==
    Completed => \A e \in entries : parent[e] = None => IsRootClass(e)

\* C22, amended: after a completed add_child or remove_child call the tree
\* below a root has exactly one parentless entry, the root; every other
\* entry reachable from the root has a parent.
C22_RootOnlyParentlessInTree ==
    Completed =>
        \A r \in entries :
            is_root(heap, r) =>
                {e \in Subtree(r) : parent[e] = None} = {r}

\* remove_child has returned, its child is parentless and no root, and the
\* root still has a tree of three entries
C22_Witness ==
    /\ last.op = "remove_child"
    /\ last.raised = None
    /\ last.old_parent # None
    /\ parent[last.child] = None
    /\ ~IsRootClass(last.child)
    /\ \E r \in entries : is_root(heap, r) /\ Cardinality(Subtree(r)) = 3

\* the entries whose str the lines of a rendered text end with, line by line
LineEntries(text) == [i \in 1..Len(text) |-> text[i][Len(text[i])][2]]

\* the entries of a list that lie at depth d or above
UpToDepth(lst, d) == SelectSeq(lst, LAMBDA e : depth(heap, e, 1).v <= d)

\* C23: tree renders one line per entry, in the order of entries: without
\* maxdepth, on an entry with a tree below it, the lines are the entries of
\* the subtree; with maxdepth = d, on an entry below a root, the lines are
\* the receiver followed by its descendants of depth at most d, so that an
\* entry at depth d is printed and nothing below it is, and on the root
\* with d >= 1 the lines are the entries with depth <= d.
C23_TreeLines ==
    (answer.op = "tree") =>
        LET self == answer.self
            all  == entries_iter(heap, self, 1) IN
        /\ (answer.maxdepth = NoMaxdepth /\ TreeBelow(self))
           => /\ answer.raised = None
              /\ all.raised = None
              /\ LineEntries(answer.v) = all.v
        /\ ( /\ answer.maxdepth # NoMaxdepth
             /\ \E r \in entries : is_root(heap, r) /\ self \in Subtree(r) )
           => /\ answer.raised = None
              /\ LineEntries(answer.v)
                   = <<self>> \o UpToDepth(Tail(all.v), answer.maxdepth[1])
              /\ (is_root(heap, self) /\ answer.maxdepth[1] >= 1)
                 => LineEntries(answer.v)
                      = UpToDepth(all.v, answer.maxdepth[1])

\* tree with maxdepth = 2 has been called on the root of a codex of three
\* levels: the entry of depth 2 has its line, the entry below it has none
C23_Witness ==
    /\ answer.op = "tree"
    /\ answer.raised = None
    /\ answer.maxdepth = <<2>>
    /\ is_root(heap, answer.self)
    /\ Len(answer.v) = 2
    /\ Len(entries_iter(heap, answer.self, 1).v) = 3
    /\ depth(heap, answer.v[2][Len(answer.v[2])][2], 1).v = 2

\* the entry of a linear codex that has no child
LeafOf(r) == CHOOSE e \in Subtree(r) : children[e] = <<>>

\* the line of entry e in a linear codex
LinearLine(e) ==
    IF is_root(heap, e) THEN <<str(e)>>
    ELSE Repeat(Indent, depth(heap, e, 1).v - 2) \o <<LastBranch, str(e)>>

\* C24: for a linear codex, a root below which every entry has at most one
\* child, root.tree() and ancestry() of the single leaf render the same
\* text: one line per entry in pre-order, the root bare, an entry of depth
\* k >= 2 after k - 2 blocks of four spaces and the last-child connector.
C24_TreeIsAncestry ==
    \A r \in entries : (is_root(heap, r) /\ Linear(r)) =>
        LET t  == tree(heap, r, <<>>, NoMaxdepth, 1)
            a  == ancestry(heap, LeafOf(r), 1)
            es == entries_iter(heap, r, 1).v IN
        /\ t.raised = None
        /\ a.raised = None
        /\ t.v = a.v
        /\ t.v = [i \in 1..Len(es) |-> LinearLine(es[i])]

\* a linear codex of four levels: its last line has two blocks of
\* indentation
C24_Witness ==
    \E r \in entries :
        /\ is_root(heap, r)
        /\ Linear(r)
        /\ Cardinality(Subtree(r)) = 4
        /\ tree(heap, r, <<>>, NoMaxdepth, 1).v[4]
              = <<Indent, Indent, LastBranch, str(LeafOf(r))>>
        /\ last.op = "add_child"

\* P has a child that is no block
HasNonBlockChild(P) ==
    \E i \in 1..Len(children[P]) : ~IsBlock(children[P][i])

\* C25: when P has a child that is no block, or N is no block, a completed
\* add_child(P, N) moves no existing child: every entry but N keeps its
\* parent and every children list but that of P and of N's previous parent
\* stays as it was; if N is no root and not yet listed in P, N is appended
\* to P.children, the children before it in their order, and N.parent is
\* P; otherwise nothing changes.
C25_NoNestingAmongNonBlocks ==
    [][\A P \in entries, N \in entries :
          (AddChildStep(P, N) /\ (HasNonBlockChild(P) \/ ~IsBlock(N)))
          => /\ \A e \in Catalogue \ {N} : parent'[e] = parent[e]
             /\ \A e \in Catalogue \ {P, parent[N]} :
                   children'[e] = children[e]
             /\ IF IsRootClass(N) \/ InList(N, children[P])
                THEN parent' = parent /\ children' = children
                ELSE /\ parent'[N] = P
                     /\ children'[P] = Append(children[P], N)]_vars

\* a block has been added to an entry that has a block and a non-block as
\* children; the new block should contain the block but is appended after
\* the two, which keep their places
C25_Witness ==
    /\ last.op = "add_child"
    /\ last.raised = None
    /\ IsBlock(last.child)
    /\ Len(children[last.self]) = 3
    /\ children[last.self][3] = last.child
    /\ \E i, j \in 1..2 :
          /\ ~IsBlock(children[last.self][i])
          /\ should_contain(last.child, children[last.self][j])

\* C26: after any sequence of add_child and remove_child calls no entry is
\* its own ancestor: the parent relation over all entries is acyclic.
C26_Acyclic ==
    \A e \in entries : e \notin Ancestors(parent, e)

(***************************************************************************)
(* A program whose codex holds a block with a malformed code, one with two *)
(* dashes, so that should_contain raises ValueError.  On the small codex   *)
(* any entry receives add_child and remove_child; on the large one only    *)
(* the chapter does.                                                       *)
(***************************************************************************)
ScanCodices ==
    {{"R", "B1", "B3", "BX"}, {"C", "K", "B1", "B2", "B3", "BX"}}

\* the entries add_child and remove_child are called on
Receivers == IF "C" \in entries THEN {"C"} ELSE entries

InitScan ==
    /\ entries \in ScanCodices
    /\ Fresh

NextScan ==
    \/ \E self \in Receivers, new_child \in entries :
          AddChild(self, new_child)
    \/ \E self \in Receivers, child \in entries : RemoveChild(self, child)

SpecScan == InitScan /\ [][NextScan]_vars

\* the step is a call P.add_child(N) that raised ValueError
AddChildRaisedStep(P, N) ==
    /\ last'.op = "add_child"
    /\ last'.self = P
    /\ last'.child = N
    /\ last'.raised = "ValueError"
    /\ last' # last \/ children' # children \/ parent' # parent

\* C27: when should_contain raises during add_child(P, N), the call leaves
\* P.children, N.children, N.parent and the parent of every child of P as
\* they were before the call.
C27_AddChildAllOrNothing ==
    [][\A P \in entries, N \in entries :
          AddChildRaisedStep(P, N)
          => /\ children'[P] = children[P]
             /\ children'[N] = children[N]
             /\ parent'[N] = parent[N]
             /\ \A i \in 1..Len(children[P]) :
                   parent'[children[P][i]] = parent[children[P][i]]]_vars

\* the heap after the step
heap_after == [parent |-> parent', children |-> children']

\* C28: add_child(P, N) that completes, with P below a root R and N a
\* parentless entry that is no root and whose subtree shares no entry with
\* the tree of R, leaves below R the entries that were below it and those
\* of the subtree of N, and no others: len(R) grows by len(N).
C28_AddChildKeepsEntries ==
    [][\A R \in entries, P \in entries, N \in entries :
          ( /\ AddChildStep(P, N)
            /\ is_root(heap, R)
            /\ P \in Subtree(R)
            /\ parent[N] = None
            /\ ~IsRootClass(N)
            /\ Subtree(N) \cap Subtree(R) = {} )
          => /\ Reachable(children', R, Cardinality(Catalogue))
                  = Subtree(R) \cup Subtree(N)
             /\ len(heap_after, R, 1).raised = None
             /\ len(heap_after, R, 1).v
                  = len(heap, R, 1).v + len(heap, N, 1).v]_vars

\* a parentless block with an entry below it has been added to a root, and
\* nesting correction has put it under a block of the root instead: all
\* four entries are below the root
C28_Witness ==
    /\ last.op = "add_child"
    /\ last.raised = None
    /\ last.old_parent = None
    /\ is_root(heap, last.self)
    /\ parent[last.child] \notin {None, last.self}
    /\ children[last.child] # <<>>
    /\ Cardinality(Subtree(last.self)) = 4

(***************************************************************************)
(* A program that asks the blocks of the catalogue for their start and     *)
(* end codes and whether they should contain an entry or something that    *)
(* is no entry.                                                            *)
(***************************************************************************)
InitContain ==
    /\ entries = Catalogue
    /\ Fresh

\* a call on self with one argument, or none, answered with v or raised
AnswerBlock(op, self, block, v, raised) ==
    /\ answer.op = "none"
    /\ answer' = [op |-> op, self |-> self, block |-> block, v |-> v,
                  raised |-> raised]
    /\ UNCHANGED <<_release, entries, parent, children, last, order>>

\* self.should_contain(block)
ShouldContain(self, block) ==
    IF should_contain_raises(self, block)
    THEN AnswerBlock("should_contain", self, block, None, "ValueError")
    ELSE AnswerBlock("should_contain", self, block,
                     should_contain(self, block), None)

\* self.start_code
StartCode(self) ==
    AnswerBlock("start_code", self, None, start_code(self), None)

\* self.end_code
EndCode(self) ==
    IF end_code_raises(self)
    THEN AnswerBlock("end_code", self, None, None, "ValueError")
    ELSE AnswerBlock("end_code", self, None, end_code(self), None)

NextContain ==
    \/ \E self \in {e \in entries : IsICD10CMBlock(e)},
          block \in entries \cup {NotAnEntry} : ShouldContain(self, block)
    \/ \E self \in {e \in entries : IsICD10CMBlock(e)} : StartCode(self)
    \/ \E self \in {e \in entries : IsICD10CMBlock(e)} : EndCode(self)
    \/ Return

SpecContain == InitContain /\ [][NextContain]_vars

\* a <= b in the order of Python's strings
StrLeq(a, b) == a = b \/ StrLess(a, b)

\* the contiguous pieces of a code
Pieces(code) ==
    {SubSeq(code, i, j) : i \in 1..Len(code), j \in 0..Len(code)}

\* code is well formed and reads first, or first '-' last
Spans(code, first, lst) ==
    /\ "-" \notin Elements(first)
    /\ "-" \notin Elements(lst)
    /\ \/ code = first /\ lst = first
       \/ code = first \o <<"-">> \o lst

\* C29: for blocks A and B of the 10-CM revision with well formed codes,
\* A.should_contain(B) is true exactly when B is another block than A, the
\* start code of B is at or after that of A and the end code of B at or
\* before that of A, in string order; it is false for A itself and for
\* every argument that is no such block; a code without '-' is start code
\* and end code at once.
C29_RangeContainment ==
    /\ (answer.op = "should_contain" /\ answer.raised = None) =>
          LET A == answer.self
              B == answer.block IN
          /\ answer.v \in BOOLEAN
          /\ (B = A \/ B \notin Catalogue \/ ~IsICD10CMBlock(B))
                => answer.v = FALSE
          /\ (B # A /\ B \in Catalogue /\ IsICD10CMBlock(B)) =>
                \E sa, ea \in Pieces(CodeOf(A)), sb, eb \in Pieces(CodeOf(B)) :
                    /\ Spans(CodeOf(A), sa, ea)
                    /\ Spans(CodeOf(B), sb, eb)
                    /\ answer.v <=> (StrLeq(sa, sb) /\ StrLeq(eb, ea))
    /\ (answer.op = "end_code" /\ "-" \notin Elements(CodeOf(answer.self)))
          => /\ answer.raised = None
             /\ answer.v = CodeOf(answer.self)
             /\ answer.v = start_code(answer.self)

\* a block has been asked whether it should contain the single code that
\* is its own end code, and has answered that it should
C29_Witness ==
    /\ answer.op = "should_contain"
    /\ answer.raised = None
    /\ answer.v = TRUE
    /\ "-" \notin Elements(CodeOf(answer.block))
    /\ end_code(answer.self) = CodeOf(answer.block)
    /\ start_code(answer.self) # CodeOf(answer.block)

(***************************************************************************)
(* A program that changes a codex of four entries with add_child and       *)
(* remove_child and iterates over the entries and the leaves of any entry. *)
(***************************************************************************)
InitIterate ==
    /\ entries \in Codices
    /\ Fresh

NextIterate ==
    \/ \E self \in entries, new_child \in entries :
          TraverseAdd(self, new_child)
    \/ \E self \in entries, child \in entries : TraverseRemove(self, child)
    \/ \E self \in entries : Entries(self)
    \/ \E self \in entries : Leaves(self)
    \/ Return

SpecIterate == InitIterate /\ [][NextIterate]_vars

\* the position of e in a list that holds it
Pos(lst, e) == CHOOSE i \in 1..Len(lst) : lst[i] = e

\* lst is the subtree of self in pre-order: it holds each entry of the
\* subtree once, the subtree of each entry in the places that begin with
\* the entry, and the children of an entry in their order
IsPreOrder(lst, self) ==
    /\ Elements(lst) = Subtree(self)
    /\ Len(lst) = Cardinality(Subtree(self))
    /\ \A e \in Subtree(self) :
          /\ {lst[i] : i \in Pos(lst, e)..
                                (Pos(lst, e) + Cardinality(Subtree(e)) - 1)}
                = Subtree(e)
          /\ \A i, j \in 1..Len(children[e]) :
                i < j => Pos(lst, children[e][i]) < Pos(lst, children[e][j])

\* C30: on an entry with a tree below it, entries yields the subtree in
\* pre-order, self first and each entry once, and leaves yields the
\* entries of that sequence that have no children, in the same order;
\* neither access changes a link.
C30_EntriesAndLeaves ==
    /\ [](\A self \in entries :
            (answer.self = self /\ TreeBelow(self)) =>
              /\ answer.op = "entries" =>
                    /\ answer.raised = None
                    /\ answer.v[1] = self
                    /\ IsPreOrder(answer.v, self)
              /\ answer.op = "leaves" =>
                    /\ answer.raised = None
                    /\ answer.v
                         = SelectSeq(entries_iter(heap, self, 1).v,
                                     LAMBDA e : children[e] = <<>>))
    /\ [][answer'.op \in {"entries", "leaves"}
            => (parent' = parent /\ children' = children)]_vars

\* entries has been called on a root with two children, the first of them
\* with a child of its own, which is yielded before the second child
C30_Witness ==
    /\ answer.op = "entries"
    /\ answer.raised = None
    /\ is_root(heap, answer.self)
    /\ Len(children[answer.self]) = 2
    /\ Len(answer.v) = 4
    /\ parent[answer.v[3]] = answer.v[2]
    /\ parent[answer.v[4]] = answer.self

====
